---- MODULE Spec2Model ----
(***************************************************************************)
(* Model of src/options.rs of ord-bells: the Options struct built by the   *)
(* argument parser, the resolution of the network, of the paths, of the    *)
(* RPC endpoint and of the configuration document, and the construction    *)
(* and preflight of the Dogecoin Core RPC client.                          *)
(*                                                                         *)
(* Conventions.  Option<T> is a set with at most one element ({} is None,  *)
(* {x} is Some(x)).  A String is a sequence of text pieces, format! is     *)
(* concatenation, and numbers are formatted digit by digit.  A PathBuf is  *)
(* the sequence of its components and join appends one.  A Result is a     *)
(* record [ok, val, err] with val and err Options.  An anyhow error is its *)
(* format string together with the displayed arguments.                    *)
(*                                                                         *)
(* The fields index, index_sats, height_limit and first_inscription_height *)
(* of Options are read by none of the modelled functions and are left out. *)
(***************************************************************************)
EXTENDS Integers, Sequences, FiniteSets

VARIABLES
  pc,                \* position of the invocation
  args,              \* the command line as typed (what was supplied)
  env,               \* the platform: target_os, dirs::home_dir(), dirs::data_dir()
  fs,                \* the files load_config may look at
  options,           \* Option<Options>: the parsed Options
  result,            \* Option<Result>: what the called function returned
  steps,             \* the calls made so far by the client construction / preflight
  reads,             \* the filesystem accesses made so far by load_config
  cookie_file_path,  \* local cookie_file of dogecoin_rpc_client
  client,            \* local client: Option<Client>
  rpc_chain,         \* Option<String>: chain name reported by get_blockchain_info
  dogecoin_version,  \* Option<usize>: what client.version() returned
  loaded,            \* Option<set of names>: what client.list_wallets() returned
  node_loads,        \* wallets the node was asked to load (the node's session state)
  descriptors        \* Option<Seq of desc>: what client.list_descriptors returned

vars == <<pc, args, env, fs, options, result, steps, reads, cookie_file_path,
          client, rpc_chain, dogecoin_version, loaded, node_loads, descriptors>>

----------------------------------------------------------------------------
(* Bounds of the model *)

\* longest descriptor list the node returns
MaxDescriptors == 3
\* node versions within this distance of MIN_VERSION are tried (plus fixed samples)
VersionSpan == 2
\* longest "hidden" list of a configuration document
MaxHidden == 2

----------------------------------------------------------------------------
(* Option and Result *)

None == {}
Some(x) == {x}
Unwrap(o) == CHOOSE x \in o : TRUE
OptionOf(S) == {None} \cup {Some(x) : x \in S}

Ok(v) == [ok |-> TRUE, val |-> Some(v), err |-> None]
Err(e) == [ok |-> FALSE, val |-> None, err |-> Some(e)]

\* anyhow!(fmt, args..) / bail!(fmt, args..)
Error(fmt, fargs) == [fmt |-> fmt, args |-> fargs]

----------------------------------------------------------------------------
(* Strings and numbers *)

DigitStr == <<"0", "1", "2", "3", "4", "5", "6", "7", "8", "9">>

\* Display of an unsigned integer
RECURSIVE DisplayInt(_)
DisplayInt(n) ==
  IF n < 10 THEN <<DigitStr[n + 1]>>
  ELSE DisplayInt(n \div 10) \o <<DigitStr[(n % 10) + 1]>>

\* the characters of a descriptor; str::starts_with
StartsWith(s, prefix) ==
  /\ Len(s) >= Len(prefix)
  /\ SubSeq(s, 1, Len(prefix)) = prefix

\* PathBuf::join with a relative component
Join(path, component) == Append(path, component)

----------------------------------------------------------------------------
(* Chain (the enum of chain.rs, used through its interface) *)

Chains == {"Mainnet", "Testnet", "Signet", "Regtest"}

\* the spellings --chain accepts (arg_enum with aliases)
Spellings == {"main", "mainnet", "test", "testnet", "signet", "regtest"}

ParseChain(s) ==
  CASE s \in {"main", "mainnet"} -> "Mainnet"
    [] s \in {"test", "testnet"} -> "Testnet"
    [] s = "signet" -> "Signet"
    [] s = "regtest" -> "Regtest"

\* Chain::default_rpc_port
default_rpc_port(c) ==
  CASE c = "Mainnet" -> 22555
    [] c = "Regtest" -> 18443
    [] c = "Signet" -> 38332
    [] c = "Testnet" -> 44555

\* Chain::join_with_data_dir
join_with_data_dir(c, data_dir_path) ==
  CASE c = "Mainnet" -> data_dir_path
    [] c = "Testnet" -> Join(data_dir_path, "testnet3")
    [] c = "Signet" -> Join(data_dir_path, "signet")
    [] c = "Regtest" -> Join(data_dir_path, "regtest")

\* impl Display for Chain
DisplayChain(c) ==
  CASE c = "Mainnet" -> <<"mainnet">>
    [] c = "Testnet" -> <<"testnet">>
    [] c = "Signet" -> <<"signet">>
    [] c = "Regtest" -> <<"regtest">>

----------------------------------------------------------------------------
(* The command line and its parsing into Options *)

\* number of members of the ArgGroup "chains" present on the command line
\* (a default value is not a presence)
ChainsGroupCount(a) ==
  (IF a.chain # None THEN 1 ELSE 0) + (IF a.signet THEN 1 ELSE 0)
  + (IF a.regtest THEN 1 ELSE 0) + (IF a.testnet THEN 1 ELSE 0)

\* the clap derive of struct Options: Option<T> fields are taken as given,
\* chain_argument and wallet have default values
ParseOptions(a) ==
  [ dogecoin_data_dir |-> a.dogecoin_data_dir,
    chain_argument |-> ParseChain(IF a.chain = None THEN "mainnet" ELSE Unwrap(a.chain)),
    config |-> a.config,
    config_dir |-> a.config_dir,
    cookie_file |-> a.cookie_file,
    data_dir |-> a.data_dir,
    regtest |-> a.regtest,
    rpc_url |-> a.rpc_url,
    signet |-> a.signet,
    testnet |-> a.testnet,
    wallet |-> IF a.wallet = None THEN <<"ord">> ELSE Unwrap(a.wallet) ]

\* try_parse_from: the group "chains" is not multiple, so two of its members
\* are a usage error; otherwise the Options
TryParse(a) ==
  IF ChainsGroupCount(a) > 1
    THEN Err(Error("usage: the argument cannot be used with one or more of the other specified arguments", <<>>))
    ELSE Ok(ParseOptions(a))

----------------------------------------------------------------------------
(* Options::chain *)

\* a chain() that forgets the shortcut flags
chain_ignoring_flags(o) == o.chain_argument

chain(o) ==
  IF o.signet THEN "Signet"
  ELSE IF o.regtest THEN "Regtest"
  ELSE IF o.testnet THEN "Testnet"
  ELSE o.chain_argument

----------------------------------------------------------------------------
(* Options::rpc_url, Options::cookie_file, Options::data_dir *)

\* an rpc_url() that takes the port of chain_argument instead of chain()
rpc_url_of_chain_argument(o) ==
  IF o.rpc_url # None THEN Unwrap(o.rpc_url)
  ELSE <<"127.0.0.1:">> \o DisplayInt(default_rpc_port(o.chain_argument))
       \o <<"/wallet/">> \o o.wallet

rpc_url(o) ==
  IF o.rpc_url # None THEN Unwrap(o.rpc_url)
  ELSE <<"127.0.0.1:">> \o DisplayInt(default_rpc_port(chain(o)))
       \o <<"/wallet/">> \o o.wallet

\* the platform default of the Dogecoin Core directory (cfg!(target_os = "linux"))
PlatformDogecoinDir(e) ==
  IF e.os = "linux"
    THEN IF e.home_dir = None
           THEN Err(Error("failed to retrieve home dir", <<>>))
           ELSE Ok(Join(Unwrap(e.home_dir), ".dogecoin"))
    ELSE IF e.data_dir = None
           THEN Err(Error("failed to retrieve data dir", <<>>))
           ELSE Ok(Join(Unwrap(e.data_dir), "Dogecoin"))

\* a cookie_file() that appends the network segment and .cookie to the override too
cookie_file_joining_override(o, e) ==
  LET path == IF o.cookie_file # None THEN Ok(Unwrap(o.cookie_file))
              ELSE IF o.dogecoin_data_dir # None THEN Ok(Unwrap(o.dogecoin_data_dir))
              ELSE PlatformDogecoinDir(e)
  IN IF ~path.ok THEN path
     ELSE Ok(Join(join_with_data_dir(chain(o), Unwrap(path.val)), ".cookie"))

cookie_file(o, e) ==
  IF o.cookie_file # None THEN Ok(Unwrap(o.cookie_file))
  ELSE LET path == IF o.dogecoin_data_dir # None
                     THEN Ok(Unwrap(o.dogecoin_data_dir))
                     ELSE PlatformDogecoinDir(e)
       IN IF ~path.ok THEN path
          ELSE Ok(Join(join_with_data_dir(chain(o), Unwrap(path.val)), ".cookie"))

\* a data_dir() that returns the override as it is
data_dir_override_verbatim(o, e) ==
  IF o.data_dir # None THEN Ok(Unwrap(o.data_dir))
  ELSE IF e.data_dir = None
    THEN Err(Error("failed to retrieve data dir", <<>>))
    ELSE Ok(join_with_data_dir(chain(o), Join(Unwrap(e.data_dir), "ord")))

data_dir(o, e) ==
  LET base == IF o.data_dir # None THEN Ok(Unwrap(o.data_dir))
              ELSE IF e.data_dir = None
                THEN Err(Error("failed to retrieve data dir", <<>>))
                ELSE Ok(Join(Unwrap(e.data_dir), "ord"))
  IN IF ~base.ok THEN base
     ELSE Ok(join_with_data_dir(chain(o), Unwrap(base.val)))

----------------------------------------------------------------------------
(* Options::load_config *)

\* the state of a path: nothing there, a file that cannot be opened, a file that
\* is no YAML document of a Config, or a document with its list "hidden"
FileAt(f, path) ==
  IF path \in DOMAIN f THEN f[path] ELSE [kind |-> "missing", hidden |-> <<>>]

\* Path::exists
Exists(f, path) == FileAt(f, path).kind # "missing"

\* Config::default()
DefaultConfig == [hidden |-> {}]

\* serde_yaml::from_reader(File::open(path)?)?, with the accesses it makes
ReadConfig(f, path) ==
  LET file == FileAt(f, path) IN
  [ res |-> CASE file.kind = "missing" -> Err(Error("No such file or directory", <<>>))
              [] file.kind = "unreadable" -> Err(Error("Permission denied", <<>>))
              [] file.kind = "malformed" -> Err(Error("invalid configuration document", <<>>))
              [] file.kind = "yaml" ->
                   Ok([hidden |-> {file.hidden[i] : i \in DOMAIN file.hidden}]),
    trace |-> <<[op |-> "open", path |-> path]>> ]

\* a load_config() that looks into --config-dir before --config
load_config_dir_first(o, f) ==
  IF o.config_dir # None /\ Exists(f, Join(Unwrap(o.config_dir), "ord.yaml"))
    THEN LET r == ReadConfig(f, Join(Unwrap(o.config_dir), "ord.yaml")) IN
         [ res |-> r.res,
           trace |-> <<[op |-> "exists", path |-> Join(Unwrap(o.config_dir), "ord.yaml")]>>
                     \o r.trace ]
    ELSE IF o.config # None THEN ReadConfig(f, Unwrap(o.config))
    ELSE [res |-> Ok(DefaultConfig), trace |-> <<>>]

load_config(o, f) ==
  IF o.config # None
    THEN ReadConfig(f, Unwrap(o.config))
    ELSE IF o.config_dir # None
      THEN LET file == Join(Unwrap(o.config_dir), "ord.yaml")
               probe == <<[op |-> "exists", path |-> file]>>
           IN IF Exists(f, file)
                THEN LET r == ReadConfig(f, file) IN
                     [res |-> r.res, trace |-> probe \o r.trace]
                ELSE [res |-> Ok(DefaultConfig), trace |-> probe]
      ELSE [res |-> Ok(DefaultConfig), trace |-> <<>>]

----------------------------------------------------------------------------
(* Options::format_dogecoin_core_version and the checks of                  *)
(* dogecoin_rpc_client and dogecoin_rpc_client_for_wallet_command           *)

MIN_VERSION == 1140600

\* a version format whose third part is taken modulo 1000
format_version_wrong_modulus(version) ==
  DisplayInt(version \div 1000000) \o <<".">>
  \o DisplayInt((version % 1000000) \div 10000) \o <<".">>
  \o DisplayInt((version % 1000) \div 100) \o <<".">>
  \o DisplayInt(version % 100)

format_dogecoin_core_version(version) ==
  DisplayInt(version \div 1000000) \o <<".">>
  \o DisplayInt((version % 1000000) \div 10000) \o <<".">>
  \o DisplayInt((version % 10000) \div 100) \o <<".">>
  \o DisplayInt(version % 100)

\* a chain check that lets a node on another known chain pass
chain_check_without_comparison(o, name) ==
  IF name \notin {"main", "test", "regtest", "signet"}
    THEN Err(Error("Dogecoin RPC server on unknown chain: {}", <<<<name>>>>))
    ELSE Ok(chain(o))

\* the match on get_blockchain_info().chain and the comparison with chain()
chain_check(o, name) ==
  IF name \notin {"main", "test", "regtest", "signet"}
    THEN Err(Error("Dogecoin RPC server on unknown chain: {}", <<<<name>>>>))
    ELSE LET remote == CASE name = "main" -> "Mainnet"
                         [] name = "test" -> "Testnet"
                         [] name = "regtest" -> "Regtest"
                         [] name = "signet" -> "Signet"
             ord_chain == chain(o)
         IN IF remote # ord_chain
              THEN Err(Error("Dogecoin RPC server is on {} but ord is on {}",
                             <<DisplayChain(remote), DisplayChain(ord_chain)>>))
              ELSE Ok(remote)

\* if dogecoin_version < MIN_VERSION { bail!(..) }
version_check(version) ==
  IF version < MIN_VERSION
    THEN Err(Error("Dogecoin Core {} or newer required, current version is {}",
                   << format_dogecoin_core_version(MIN_VERSION),
                      format_dogecoin_core_version(version) >>))
    ELSE Ok(version)

TrTag == <<"t", "r", "(">>
RawTrTag == <<"r", "a", "w", "t", "r", "(">>

\* descriptors.iter().filter(|d| d.desc.starts_with(tag)).count()
CountStartingWith(descs, tag) == Len(SelectSeq(descs, LAMBDA d : StartsWith(d, tag)))

\* the bail! of the descriptor check (the backquotes of the message are written ')
UnexpectedDescriptors(o) ==
  Err(Error("wallet \"{}\" contains unexpected output descriptors, and does not appear to be an 'ord' wallet, create a new wallet with 'ord wallet create'",
            <<o.wallet>>))

\* a descriptor check that wants exactly two descriptors
descriptor_check_without_rawtr(o, descs) ==
  LET tr == CountStartingWith(descs, TrTag) IN
  IF tr # 2 \/ Len(descs) # 2 THEN UnexpectedDescriptors(o) ELSE Ok(descs)

\* a descriptor check that looks at the number of tr( descriptors only
descriptor_check_tr_only(o, descs) ==
  LET tr == CountStartingWith(descs, TrTag) IN
  IF tr # 2 THEN UnexpectedDescriptors(o) ELSE Ok(descs)

\* if tr != 2 || descriptors.len() != 2 + rawtr { bail!(..) }
descriptor_check(o, descs) ==
  LET tr == CountStartingWith(descs, TrTag)
      rawtr == CountStartingWith(descs, RawTrTag)
  IN IF tr # 2 \/ Len(descs) # 2 + rawtr THEN UnexpectedDescriptors(o) ELSE Ok(descs)

\* a skip test of the wallet steps that is inverted
skip_wallet_steps_inverted(a) == a.command # "wallet_create"

\* the argument create of dogecoin_rpc_client_for_wallet_command
create(a) == a.command = "wallet_create"

----------------------------------------------------------------------------
(* State machine *)

NoEnv == [os |-> "linux", home_dir |-> None, data_dir |-> None]
NoFs == <<>>

ArgsOf(commands, groups, ddirs, cookies, datadirs, urls, wallets, configs, configdirs) ==
  { [ command |-> c, signet |-> g.signet, regtest |-> g.regtest, testnet |-> g.testnet,
      chain |-> g.chain, dogecoin_data_dir |-> dd, cookie_file |-> ck, data_dir |-> d,
      rpc_url |-> u, wallet |-> w, config |-> cf, config_dir |-> cd ] :
    c \in commands, g \in groups, dd \in ddirs, ck \in cookies, d \in datadirs,
    u \in urls, w \in wallets, cf \in configs, cd \in configdirs }

ShortcutsOf(g) ==
  (IF g.signet THEN 1 ELSE 0) + (IF g.regtest THEN 1 ELSE 0) + (IF g.testnet THEN 1 ELSE 0)

\* every combination of the four members of the group "chains"
AllGroups == [signet : BOOLEAN, regtest : BOOLEAN, testnet : BOOLEAN, chain : OptionOf(Spellings)]

WalletArgs == OptionOf({<<"foo">>})

InitWith(argset, envset, fsset) ==
  /\ pc = "args"
  /\ args \in argset
  /\ env \in envset
  /\ fs \in fsset
  /\ options = None
  /\ result = None
  /\ steps = <<>>
  /\ reads = <<>>
  /\ cookie_file_path = None
  /\ client = None
  /\ rpc_chain = None
  /\ dogecoin_version = None
  /\ loaded = None
  /\ node_loads = {}
  /\ descriptors = None

\* Arguments::try_parse_from
Parse ==
  /\ pc = "args"
  /\ LET r == TryParse(args) IN
       IF r.ok
         THEN /\ pc' = "parsed"
              /\ options' = r.val
              /\ result' = result
         ELSE /\ pc' = "usage_error"
              /\ options' = None
              /\ result' = Some(r)
  /\ UNCHANGED <<args, env, fs, steps, reads, cookie_file_path, client, rpc_chain,
                 dogecoin_version, loaded, node_loads, descriptors>>

Opts == Unwrap(options)

\* a call of options.chain()
CallChain ==
  /\ pc = "parsed"
  /\ args.command = "chain"
  /\ pc' = "returned"
  /\ result' = Some(Ok(chain(Opts)))
  /\ UNCHANGED <<args, env, fs, options, steps, reads, cookie_file_path, client,
                 rpc_chain, dogecoin_version, loaded, node_loads, descriptors>>

\* a call of options.rpc_url()
CallRpcUrl ==
  /\ pc = "parsed"
  /\ args.command = "rpc_url"
  /\ pc' = "returned"
  /\ result' = Some(Ok(rpc_url(Opts)))
  /\ UNCHANGED <<args, env, fs, options, steps, reads, cookie_file_path, client,
                 rpc_chain, dogecoin_version, loaded, node_loads, descriptors>>

\* a call of options.cookie_file()
CallCookieFile ==
  /\ pc = "parsed"
  /\ args.command = "cookie_file"
  /\ pc' = "returned"
  /\ result' = Some(cookie_file(Opts, env))
  /\ UNCHANGED <<args, env, fs, options, steps, reads, cookie_file_path, client,
                 rpc_chain, dogecoin_version, loaded, node_loads, descriptors>>

\* a call of options.data_dir()
CallDataDir ==
  /\ pc = "parsed"
  /\ args.command = "data_dir"
  /\ pc' = "returned"
  /\ result' = Some(data_dir(Opts, env))
  /\ UNCHANGED <<args, env, fs, options, steps, reads, cookie_file_path, client,
                 rpc_chain, dogecoin_version, loaded, node_loads, descriptors>>

\* the platforms: the build target and what the dirs crate resolves
HomeDirs == OptionOf({<<"/", "home", "user">>})
DataDirs == OptionOf({<<"/", "home", "user", ".local", "share">>})
Envs == [os : {"linux", "other"}, home_dir : HomeDirs, data_dir : DataDirs]

DogecoinDataDirArgs == OptionOf({<<"foo">>})
CookieFileArgs == OptionOf({<<"/", "foo", "bar">>})
DataDirArgs == OptionOf({<<"foo">>})
RpcUrlArgs == OptionOf({<<"127.0.0.1:1234">>})

\* a call of options.load_config()
CallLoadConfig ==
  /\ pc = "parsed"
  /\ args.command = "load_config"
  /\ LET r == load_config(Opts, fs) IN
       /\ result' = Some(r.res)
       /\ reads' = reads \o r.trace
  /\ pc' = "returned"
  /\ UNCHANGED <<args, env, fs, options, steps, cookie_file_path, client,
                 rpc_chain, dogecoin_version, loaded, node_loads, descriptors>>

\* the configuration files
Ids == {"a", "b"}
HiddenLists == UNION {[1..n -> Ids] : n \in 0..MaxHidden}
FileStates ==
  {[kind |-> k, hidden |-> <<>>] : k \in {"missing", "unreadable", "malformed"}}
  \cup {[kind |-> "yaml", hidden |-> h] : h \in HiddenLists}
ConfigDirs == {<<"d1">>, <<"d2">>}
ConfigFiles == {<<"cfg.yaml">>} \cup {Join(d, "ord.yaml") : d \in ConfigDirs}
ConfigArgs == OptionOf({<<"cfg.yaml">>, <<"d1", "ord.yaml">>})
ConfigDirArgs == OptionOf(ConfigDirs)
FileSystems == [ConfigFiles -> FileStates]

----------------------------------------------------------------------------
(* dogecoin_rpc_client and dogecoin_rpc_client_for_wallet_command, call by call *)

ClientCommands == {"dogecoin_rpc_client", "wallet", "wallet_create"}

\* what the node may answer
ChainNames == {"main", "test", "regtest", "signet", "liquid"}
Versions ==
  {0, 99, 100, 10000, 999999, 1000000, 1140000, 2010203}
  \cup ((MIN_VERSION - VersionSpan)..(MIN_VERSION + VersionSpan))
WalletNames == {<<"ord">>, <<"foo">>}
Descs == { <<"t", "r", "(", "k", ")">>,
           <<"r", "a", "w", "t", "r", "(", "k", ")">>,
           <<"w", "p", "k", "h", "(", "k", ")">> }
DescriptorLists == UNION {[1..n -> Descs] : n \in 0..MaxDescriptors}
RpcError(method) == Err(Error("JSON-RPC error", <<<<method>>>>))

\* the end of the function: r is its result (a failed call returns its error)
Return(r) ==
  /\ pc' = "returned"
  /\ result' = Some(r)

\* let cookie_file = self.cookie_file().map_err(..)?
ResolveCookieFile ==
  /\ pc = "parsed"
  /\ args.command \in ClientCommands
  /\ steps' = Append(steps, "cookie_file")
  /\ LET r == cookie_file(Opts, env) IN
       IF r.ok
         THEN /\ cookie_file_path' = r.val
              /\ pc' = "Client::new"
              /\ result' = result
         ELSE /\ cookie_file_path' = None
              /\ Return(Err(Error("failed to get cookie file path: {}",
                                  <<<<Unwrap(r.err).fmt>>>>)))
  /\ UNCHANGED <<args, env, fs, options, reads, client, rpc_chain, dogecoin_version,
                 loaded, node_loads, descriptors>>

\* let client = Client::new(&rpc_url, Auth::CookieFile(cookie_file)).with_context(..)?
NewClient ==
  /\ pc = "Client::new"
  /\ steps' = Append(steps, "Client::new")
  /\ \E connected \in BOOLEAN :
       IF connected
         THEN /\ client' = Some([url |-> rpc_url(Opts), cookie |-> Unwrap(cookie_file_path)])
              /\ pc' = "get_blockchain_info"
              /\ result' = result
         ELSE /\ client' = None
              /\ Return(Err(Error("failed to connect to Dogecoin Core RPC at {} using cookie file {}",
                                  <<rpc_url(Opts), Unwrap(cookie_file_path)>>)))
  /\ UNCHANGED <<args, env, fs, options, reads, cookie_file_path, rpc_chain,
                 dogecoin_version, loaded, node_loads, descriptors>>

\* client.get_blockchain_info()?.chain, the match and the comparison; the end of
\* dogecoin_rpc_client
GetBlockchainInfo ==
  /\ pc = "get_blockchain_info"
  /\ steps' = Append(steps, "get_blockchain_info")
  /\ \E reply \in OptionOf(ChainNames) :
       IF reply = None
         THEN /\ rpc_chain' = None
              /\ Return(RpcError("getblockchaininfo"))
         ELSE /\ rpc_chain' = reply
              /\ LET r == chain_check(Opts, Unwrap(reply)) IN
                   IF ~r.ok THEN Return(r)
                   ELSE IF args.command = "dogecoin_rpc_client"
                     THEN Return(Ok(Unwrap(client)))
                     ELSE /\ pc' = "version"
                          /\ result' = result
  /\ UNCHANGED <<args, env, fs, options, reads, cookie_file_path, client,
                 dogecoin_version, loaded, node_loads, descriptors>>

\* client.version()? and the minimum; with create the end of the function
GetVersion ==
  /\ pc = "version"
  /\ steps' = Append(steps, "version")
  /\ \E reply \in OptionOf(Versions) :
       IF reply = None
         THEN /\ dogecoin_version' = None
              /\ Return(RpcError("getnetworkinfo"))
         ELSE /\ dogecoin_version' = reply
              /\ LET r == version_check(Unwrap(reply)) IN
                   IF ~r.ok THEN Return(r)
                   ELSE IF create(args)
                     THEN Return(Ok(Unwrap(client)))
                     ELSE /\ pc' = "list_wallets"
                          /\ result' = result
  /\ UNCHANGED <<args, env, fs, options, reads, cookie_file_path, client, rpc_chain,
                 loaded, node_loads, descriptors>>

\* client.list_wallets()?.contains(&self.wallet)
ListWallets ==
  /\ pc = "list_wallets"
  /\ steps' = Append(steps, "list_wallets")
  /\ \E reply \in OptionOf(SUBSET WalletNames) :
       IF reply = None
         THEN /\ loaded' = None
              /\ Return(RpcError("listwallets"))
         ELSE /\ loaded' = reply
              /\ pc' = IF Opts.wallet \in Unwrap(reply) THEN "list_descriptors"
                        ELSE "load_wallet"
              /\ result' = result
  /\ UNCHANGED <<args, env, fs, options, reads, cookie_file_path, client, rpc_chain,
                 dogecoin_version, node_loads, descriptors>>

\* client.load_wallet(&self.wallet)?
LoadWallet ==
  /\ pc = "load_wallet"
  /\ steps' = Append(steps, "load_wallet")
  /\ \E done \in BOOLEAN :
       IF done
         THEN /\ node_loads' = node_loads \cup {Opts.wallet}
              /\ pc' = "list_descriptors"
              /\ result' = result
         ELSE /\ node_loads' = node_loads
              /\ Return(RpcError("loadwallet"))
  /\ UNCHANGED <<args, env, fs, options, reads, cookie_file_path, client, rpc_chain,
                 dogecoin_version, loaded, descriptors>>

\* client.list_descriptors(None)?.descriptors and the check of their shape; the
\* end of dogecoin_rpc_client_for_wallet_command
ListDescriptors ==
  /\ pc = "list_descriptors"
  /\ steps' = Append(steps, "list_descriptors")
  /\ \E reply \in OptionOf(DescriptorLists) :
       IF reply = None
         THEN /\ descriptors' = None
              /\ Return(RpcError("listdescriptors"))
         ELSE /\ descriptors' = reply
              /\ LET r == descriptor_check(Opts, Unwrap(reply)) IN
                   IF ~r.ok THEN Return(r) ELSE Return(Ok(Unwrap(client)))
  /\ UNCHANGED <<args, env, fs, options, reads, cookie_file_path, client, rpc_chain,
                 dogecoin_version, loaded, node_loads>>

InitChain ==
  InitWith(ArgsOf({"chain"}, AllGroups, {None}, {None}, {None}, {None}, WalletArgs, {None}, {None}),
           {NoEnv}, {NoFs})

NextChain == Parse \/ CallChain

SpecChain == InitChain /\ [][NextChain]_vars

InitPaths ==
  InitWith(ArgsOf({"rpc_url", "cookie_file", "data_dir"}, AllGroups, DogecoinDataDirArgs,
                  CookieFileArgs, DataDirArgs, RpcUrlArgs, WalletArgs, {None}, {None}),
           Envs, {NoFs})

NextPaths == Parse \/ CallRpcUrl \/ CallCookieFile \/ CallDataDir

SpecPaths == InitPaths /\ [][NextPaths]_vars

\* the platforms of a client construction: cookie_file() reads dirs::home_dir() on
\* Linux and dirs::data_dir() elsewhere, and nothing else reads the platform, so
\* the directory that is not read is left unresolved
ClientEnvs ==
  {e \in Envs : IF e.os = "linux" THEN e.data_dir = None ELSE e.home_dir = None}

Init ==
  InitWith(ArgsOf(ClientCommands, AllGroups, DogecoinDataDirArgs, CookieFileArgs, {None},
                  RpcUrlArgs, WalletArgs, {None}, {None}),
           ClientEnvs, {NoFs})

Next ==
  \/ Parse
  \/ ResolveCookieFile
  \/ NewClient
  \/ GetBlockchainInfo
  \/ GetVersion
  \/ ListWallets
  \/ LoadWallet
  \/ ListDescriptors

Spec == Init /\ [][Next]_vars

InitConfig ==
  InitWith(ArgsOf({"load_config"}, {g \in AllGroups : ShortcutsOf(g) = 0 /\ g.chain = None},
                  {None}, {None}, {None}, {None}, {None}, ConfigArgs, ConfigDirArgs),
           {NoEnv}, FileSystems)

NextConfig == Parse \/ CallLoadConfig

SpecConfig == InitConfig /\ [][NextConfig]_vars

----------------------------------------------------------------------------
(* What the claims speak of, read off the command line as typed *)

\* the shortcut flags supplied
ShortcutCount(a) == Cardinality({f \in {"signet", "regtest", "testnet"} : a[f]})

\* --chain supplied with a network other than the default one
NonDefaultChain(a) == a.chain # None /\ Unwrap(a.chain) \notin {"main", "mainnet"}

\* the network a command line asks for
NetworkAsked(a) ==
  IF a.signet THEN "Signet"
  ELSE IF a.regtest THEN "Regtest"
  ELSE IF a.testnet THEN "Testnet"
  ELSE IF a.chain \in {Some("test"), Some("testnet")} THEN "Testnet"
  ELSE IF a.chain = Some("signet") THEN "Signet"
  ELSE IF a.chain = Some("regtest") THEN "Regtest"
  ELSE "Mainnet"

\* the path segment of a network
Segment(net) ==
  CASE net = "Mainnet" -> <<>>
    [] net = "Testnet" -> <<"testnet3">>
    [] net = "Signet" -> <<"signet">>
    [] net = "Regtest" -> <<"regtest">>

Returned(command) == pc = "returned" /\ args.command = command
Res == Unwrap(result)

----------------------------------------------------------------------------
(* C1 *)

\* C1: a command line with more than one of --signet, --regtest, --testnet and
\* --chain <non-default network> is never parsed into Options (it ends as a usage
\* error and chain() is never called on it); when chain() returns, it returns the
\* network of the single shortcut flag, or of --chain when only --chain is given,
\* and Mainnet when none of them is given.
C1_ChainSelection ==
  /\ (ShortcutCount(args) + (IF NonDefaultChain(args) THEN 1 ELSE 0) > 1)
       => /\ pc \in {"args", "usage_error"}
          /\ options = None
          /\ pc = "usage_error" => ~Res.ok
  /\ Returned("chain") =>
       /\ Res.ok
       /\ (args.signet /\ ShortcutCount(args) = 1) => Res.val = Some("Signet")
       /\ (args.regtest /\ ShortcutCount(args) = 1) => Res.val = Some("Regtest")
       /\ (args.testnet /\ ShortcutCount(args) = 1) => Res.val = Some("Testnet")
       /\ (ShortcutCount(args) = 0 /\ args.chain \in {Some("main"), Some("mainnet")})
            => Res.val = Some("Mainnet")
       /\ (ShortcutCount(args) = 0 /\ args.chain \in {Some("test"), Some("testnet")})
            => Res.val = Some("Testnet")
       /\ (ShortcutCount(args) = 0 /\ args.chain = Some("signet")) => Res.val = Some("Signet")
       /\ (ShortcutCount(args) = 0 /\ args.chain = Some("regtest")) => Res.val = Some("Regtest")
       /\ (ShortcutCount(args) = 0 /\ args.chain = None) => Res.val = Some("Mainnet")

\* chain() has returned Testnet for a command line with --testnet alone
C1_Witness ==
  /\ Returned("chain")
  /\ args.testnet /\ ~args.signet /\ ~args.regtest /\ args.chain = None
  /\ Res.val = Some("Testnet")

----------------------------------------------------------------------------
(* C9 *)

\* C9: rpc_url() returns the --rpc-url override verbatim whenever one is given;
\* otherwise "127.0.0.1:<port>/wallet/<wallet>" with the default port of the
\* selected network (22555 for Mainnet, 38332 for Signet) and the wallet name,
\* "ord" unless --wallet is given.
C9_RpcUrl ==
  Returned("rpc_url") =>
    LET net == NetworkAsked(args)
        w == IF args.wallet = None THEN <<"ord">> ELSE Unwrap(args.wallet)
    IN /\ Res.ok
       /\ args.rpc_url # None => Res.val = args.rpc_url
       /\ args.rpc_url = None =>
            /\ Unwrap(Res.val) = <<"127.0.0.1:">> \o DisplayInt(default_rpc_port(net))
                                   \o <<"/wallet/">> \o w
            /\ net = "Mainnet" => Unwrap(Res.val) =
                 <<"127.0.0.1:", "2", "2", "5", "5", "5", "/wallet/">> \o w
            /\ net = "Signet" => Unwrap(Res.val) =
                 <<"127.0.0.1:", "3", "8", "3", "3", "2", "/wallet/">> \o w

\* the default endpoint of Signet, selected by --signet, with a given wallet name
C9_Witness ==
  /\ Returned("rpc_url")
  /\ args.signet /\ args.rpc_url = None /\ args.wallet = Some(<<"foo">>)
  /\ Unwrap(Res.val) = <<"127.0.0.1:", "3", "8", "3", "3", "2", "/wallet/", "foo">>

----------------------------------------------------------------------------
(* C7 *)

\* C7: cookie_file() returns the --cookie-file override as it is, whatever the
\* network and the platform; otherwise base/.cookie for Mainnet and
\* base/<segment>/.cookie for the other networks (testnet3 for Testnet), base being
\* --dogecoin-data-dir if given, else home/.dogecoin on Linux and
\* data-dir/Dogecoin elsewhere; with no override and no platform directory it
\* fails, naming the directory that is missing.
C7_CookieFile ==
  Returned("cookie_file") =>
    LET net == NetworkAsked(args)
        platform == IF env.os = "linux" THEN env.home_dir ELSE env.data_dir
        folder == IF env.os = "linux" THEN ".dogecoin" ELSE "Dogecoin"
        base == IF args.dogecoin_data_dir # None THEN Unwrap(args.dogecoin_data_dir)
                ELSE Unwrap(platform) \o <<folder>>
    IN /\ args.cookie_file # None => Res = Ok(Unwrap(args.cookie_file))
       /\ (args.cookie_file = None /\ (args.dogecoin_data_dir # None \/ platform # None))
            => Res = Ok(base \o Segment(net) \o <<".cookie">>)
       /\ (args.cookie_file = None /\ args.dogecoin_data_dir = None /\ platform = None)
            => /\ ~Res.ok
               /\ Unwrap(Res.err).fmt = (IF env.os = "linux"
                                           THEN "failed to retrieve home dir"
                                           ELSE "failed to retrieve data dir")

\* the platform default of Testnet outside Linux
C7_Witness ==
  /\ Returned("cookie_file")
  /\ args.cookie_file = None /\ args.dogecoin_data_dir = None
  /\ args.chain = Some("testnet") /\ env.os = "other" /\ env.data_dir # None
  /\ Res = Ok(Unwrap(env.data_dir) \o <<"Dogecoin", "testnet3", ".cookie">>)

----------------------------------------------------------------------------
(* C8 *)

\* C8: data_dir() returns base for Mainnet and base/<segment> for the other
\* networks (testnet3 for Testnet, for --chain test and --chain testnet alike),
\* base being --data-dir if given, else the platform data directory joined with
\* "ord"; with no override and no platform data directory it fails.
C8_DataDir ==
  Returned("data_dir") =>
    LET net == NetworkAsked(args)
        base == IF args.data_dir # None THEN Unwrap(args.data_dir)
                ELSE Unwrap(env.data_dir) \o <<"ord">>
    IN /\ (args.data_dir # None \/ env.data_dir # None) => Res = Ok(base \o Segment(net))
       /\ (args.chain \in {Some("test"), Some("testnet")} /\ args.data_dir # None)
            => Res = Ok(Unwrap(args.data_dir) \o <<"testnet3">>)
       /\ (args.data_dir = None /\ env.data_dir = None)
            => /\ ~Res.ok
               /\ Unwrap(Res.err).fmt = "failed to retrieve data dir"

\* an explicit --data-dir joined with the segment of --chain test
C8_Witness ==
  /\ Returned("data_dir")
  /\ args.data_dir = Some(<<"foo">>) /\ args.chain = Some("test")
  /\ Res = Ok(<<"foo", "testnet3">>)

----------------------------------------------------------------------------
(* C6 *)

Opened == {i \in DOMAIN reads : reads[i].op = "open"}
ConfigOf(file) == [hidden |-> {x \in Ids : \E i \in DOMAIN file.hidden : file.hidden[i] = x}]

\* C6: load_config() opens at most one document.  With --config the result is that
\* file parsed, a missing or malformed file is an error, and nothing of
\* --config-dir is looked at; otherwise, with --config-dir holding ord.yaml, the
\* result is that file parsed (an error when malformed); otherwise the result is the
\* default empty Config.  The result depends on the content of the document only,
\* not on the option it was named by.
C6_LoadConfig ==
  Returned("load_config") =>
    LET direct == FileAt(fs, Unwrap(args.config))
        indir == FileAt(fs, Unwrap(args.config_dir) \o <<"ord.yaml">>)
    IN /\ Cardinality(Opened) <= 1
       /\ args.config # None =>
            /\ \A i \in DOMAIN reads : reads[i].path = Unwrap(args.config)
            /\ direct.kind \in {"missing", "malformed", "unreadable"} => ~Res.ok
            /\ direct.kind = "yaml" => Res = Ok(ConfigOf(direct))
       /\ (args.config = None /\ args.config_dir # None /\ indir.kind # "missing") =>
            /\ indir.kind \in {"malformed", "unreadable"} => ~Res.ok
            /\ indir.kind = "yaml" => Res = Ok(ConfigOf(indir))
       /\ (args.config = None /\ args.config_dir # None /\ indir.kind = "missing") =>
            /\ Res = Ok([hidden |-> {}])
            /\ Opened = {}
       /\ (args.config = None /\ args.config_dir = None) =>
            /\ Res = Ok([hidden |-> {}])
            /\ reads = <<>>

\* the document of --config-dir has been loaded while --config was not given
C6_Witness ==
  /\ Returned("load_config")
  /\ args.config = None /\ args.config_dir = Some(<<"d1">>)
  /\ fs[<<"d1", "ord.yaml">>] = [kind |-> "yaml", hidden |-> <<"a">>]
  /\ Res = Ok([hidden |-> {"a"}])

----------------------------------------------------------------------------
(* C2 *)

IsClientCall == args.command \in ClientCommands
Performed(step) == \E i \in DOMAIN steps : steps[i] = step

\* the network a chain name of the node stands for, and the name a network is
\* printed by
NetworkNamed(name) ==
  CASE name = "main" -> "Mainnet"
    [] name = "test" -> "Testnet"
    [] name = "regtest" -> "Regtest"
    [] name = "signet" -> "Signet"
NetName(net) ==
  CASE net = "Mainnet" -> "mainnet"
    [] net = "Testnet" -> "testnet"
    [] net = "Regtest" -> "regtest"
    [] net = "Signet" -> "signet"
KnownChainNames == {"main", "test", "regtest", "signet"}

\* C2: a client is returned, by dogecoin_rpc_client and by
\* dogecoin_rpc_client_for_wallet_command with either value of create, only after
\* the node reported the selected network; when the node reports another of the
\* four networks the call fails with "... <remote> but ... <local>" naming both,
\* and no later call is made to the node.
C2_ChainMustMatch ==
  IsClientCall =>
    /\ (pc = "returned" /\ Res.ok) =>
         /\ Performed("get_blockchain_info")
         /\ rpc_chain \in {Some(n) : n \in KnownChainNames}
         /\ NetworkNamed(Unwrap(rpc_chain)) = NetworkAsked(args)
    /\ (Performed("version") \/ Performed("list_wallets") \/ Performed("list_descriptors")) =>
         /\ rpc_chain \in {Some(n) : n \in KnownChainNames}
         /\ NetworkNamed(Unwrap(rpc_chain)) = NetworkAsked(args)
    /\ (/\ rpc_chain \in {Some(n) : n \in KnownChainNames}
        /\ NetworkNamed(Unwrap(rpc_chain)) # NetworkAsked(args)) =>
         /\ pc = "returned"
         /\ ~Res.ok
         /\ Unwrap(Res.err) =
              [ fmt |-> "Dogecoin RPC server is on {} but ord is on {}",
                args |-> << <<NetName(NetworkNamed(Unwrap(rpc_chain)))>>,
                            <<NetName(NetworkAsked(args))>> >> ]
         /\ steps[Len(steps)] = "get_blockchain_info"

\* a wallet command on the default network has met a node on testnet
C2_Witness ==
  /\ pc = "returned" /\ args.command = "wallet"
  /\ ShortcutCount(args) = 0 /\ args.chain = None
  /\ rpc_chain = Some("test")
  /\ Unwrap(Res.err).args = << <<"testnet">>, <<"mainnet">> >>

----------------------------------------------------------------------------
(* C3 *)

TrCount(descs) == Cardinality({i \in DOMAIN descs : StartsWith(descs[i], <<"t", "r", "(">>)})
RawTrCount(descs) ==
  Cardinality({i \in DOMAIN descs : StartsWith(descs[i], <<"r", "a", "w", "t", "r", "(">>)})
WalletAsked == IF args.wallet = None THEN <<"ord">> ELSE Unwrap(args.wallet)

\* the node has answered list_descriptors of a wallet command that does not create
DescriptorsListed ==
  /\ pc = "returned" /\ args.command = "wallet"
  /\ descriptors # None

\* C3: once the descriptors are listed (create = false; client, version and wallet
\* loading went through), the call succeeds exactly when two descriptors start with
\* "tr(" and the length of the list is 2 plus the number of those starting with
\* "rawtr("; otherwise it fails with the error naming the configured wallet.
C3_DescriptorShape ==
  DescriptorsListed =>
    LET descs == Unwrap(descriptors) IN
    /\ Res.ok <=> (TrCount(descs) = 2 /\ Len(descs) = 2 + RawTrCount(descs))
    /\ ~Res.ok => Unwrap(Res.err).args = <<WalletAsked>>

\* a wallet named on the command line, with two tr( and one rawtr( descriptor, passes
C3_Witness ==
  /\ DescriptorsListed
  /\ args.wallet = Some(<<"foo">>)
  /\ TrCount(Unwrap(descriptors)) = 2
  /\ RawTrCount(Unwrap(descriptors)) = 1
  /\ Res.ok

----------------------------------------------------------------------------
(* C4 *)

\* C4 as stated: the wallet passes exactly when it holds two tr( descriptors and
\* nothing else
C4_AsStated ==
  DescriptorsListed =>
    LET descs == Unwrap(descriptors) IN
    Res.ok <=> (TrCount(descs) = 2 /\ RawTrCount(descs) = 0 /\ Len(descs) = 2)

\* C4: a wallet with exactly two tr( descriptors and no other descriptor passes; a
\* wallet fails, with the error naming it, unless it holds exactly two tr(
\* descriptors and every other descriptor of it is a rawtr( descriptor.
C4_Preflight ==
  DescriptorsListed =>
    LET descs == Unwrap(descriptors)
        others == {i \in DOMAIN descs : /\ ~StartsWith(descs[i], <<"t", "r", "(">>)
                                         /\ ~StartsWith(descs[i], <<"r", "a", "w", "t", "r", "(">>)}
    IN /\ (TrCount(descs) = 2 /\ Len(descs) = 2) => Res.ok
       /\ (TrCount(descs) # 2 \/ others # {}) =>
            /\ ~Res.ok
            /\ Unwrap(Res.err).args = <<WalletAsked>>
       /\ (TrCount(descs) = 2 /\ others = {}) => Res.ok

\* the default wallet passes with two tr( descriptors and one rawtr( descriptor
C4_Witness ==
  /\ DescriptorsListed
  /\ args.wallet = None
  /\ Len(Unwrap(descriptors)) = 3
  /\ TrCount(Unwrap(descriptors)) = 2
  /\ RawTrCount(Unwrap(descriptors)) = 1
  /\ Res.ok

----------------------------------------------------------------------------
(* C5 *)

\* reading a dotted version back: the pieces between the dots, and their values
RECURSIVE SplitDots(_)
SplitDots(s) ==
  IF s = <<>> THEN << <<>> >>
  ELSE LET rest == SplitDots(Tail(s)) IN
       IF Head(s) = "." THEN << <<>> >> \o rest
       ELSE << <<Head(s)>> \o Head(rest) >> \o Tail(rest)

DigitValue(c) == CHOOSE d \in 0..9 : DigitStr[d + 1] = c

RECURSIVE NumberOf(_)
NumberOf(ds) ==
  IF Len(ds) = 1 THEN DigitValue(ds[1])
  ELSE NumberOf(SubSeq(ds, 1, Len(ds) - 1)) * 10 + DigitValue(ds[Len(ds)])

VersionFetched == IsClientCall /\ dogecoin_version # None

\* C5: a node version below 1140600 makes dogecoin_rpc_client_for_wallet_command
\* fail at the version step, with create or without; the error carries the required
\* version as 1.14.6.0 and the actual one as four dotted parts p1.p2.p3.p4 with
\* p1 = v/1000000, p2 = (v%1000000)/10000, p3 = (v%10000)/100, p4 = v%100, which
\* add up to v (p2, p3, p4 in 0..99).  A version of 1140600 or more passes the
\* version check.
C5_VersionCheck ==
  VersionFetched =>
    LET v == Unwrap(dogecoin_version) IN
    /\ v < 1140600 =>
         /\ pc = "returned"
         /\ ~Res.ok
         /\ steps[Len(steps)] = "version"
         /\ Unwrap(Res.err).fmt = "Dogecoin Core {} or newer required, current version is {}"
         /\ Unwrap(Res.err).args[1] = <<"1", ".", "1", "4", ".", "6", ".", "0">>
         /\ LET parts == SplitDots(Unwrap(Res.err).args[2])
                 p == [i \in 1..4 |-> NumberOf(parts[i])]
            IN /\ Len(parts) = 4
               /\ \A i \in 1..4 :
                    /\ parts[i] # <<>>
                    /\ \A j \in DOMAIN parts[i] : \E d \in 1..10 : DigitStr[d] = parts[i][j]
                    /\ Len(parts[i]) > 1 => parts[i][1] # "0"
               /\ p[1] = v \div 1000000
               /\ p[2] = (v % 1000000) \div 10000
               /\ p[3] = (v % 10000) \div 100
               /\ p[4] = v % 100
               /\ p[1] * 1000000 + p[2] * 10000 + p[3] * 100 + p[4] = v
               /\ \A i \in 2..4 : p[i] \in 0..99
    /\ v >= 1140600 =>
         /\ ~(pc = "returned" /\ ~Res.ok /\ steps[Len(steps)] = "version")
         /\ (pc = "returned" /\ args.command = "wallet_create") => Res.ok

\* wallet creation against a node one version below the minimum
C5_Witness ==
  /\ pc = "returned" /\ args.command = "wallet_create"
  /\ dogecoin_version = Some(1140599)
  /\ ~Res.ok
  /\ Unwrap(Res.err).args[2] = <<"1", ".", "1", "4", ".", "5", ".", "9", "9">>

----------------------------------------------------------------------------
(* C10 *)

StepOrder ==
  << "cookie_file", "Client::new", "get_blockchain_info", "version", "list_wallets",
     "load_wallet", "list_descriptors" >>
StepOrderLoaded == SelectSeq(StepOrder, LAMBDA st : st # "load_wallet")
IsPrefix(s, t) == Len(s) <= Len(t) /\ s = SubSeq(t, 1, Len(s))
LastStep == steps[Len(steps)]

\* the step whose own call failed, if one did
CallFailed(step) ==
  /\ Performed(step)
  /\ CASE step = "cookie_file" -> cookie_file_path = None
       [] step = "Client::new" -> client = None
       [] step = "get_blockchain_info" -> rpc_chain = None
       [] step = "version" -> dogecoin_version = None
       [] step = "list_wallets" -> loaded = None
       [] step = "load_wallet" -> WalletAsked \notin node_loads
       [] step = "list_descriptors" -> descriptors = None

\* the state part of C10, over the log of calls
C10_Order ==
  IsClientCall =>
    /\ IsPrefix(steps, StepOrder) \/ IsPrefix(steps, StepOrderLoaded)
    /\ \A i, j \in DOMAIN steps : steps[i] = steps[j] => i = j
    /\ \A i \in 1..Len(StepOrder) :
         CallFailed(StepOrder[i]) =>
           /\ LastStep = StepOrder[i]
           /\ pc = "returned"
           /\ ~Res.ok
    /\ Performed("load_wallet") => (loaded # None /\ WalletAsked \notin Unwrap(loaded))
    /\ (Performed("list_descriptors") /\ ~Performed("load_wallet")) =>
         (loaded # None /\ WalletAsked \in Unwrap(loaded))
    /\ args.command = "wallet_create" =>
         /\ ~Performed("list_wallets")
         /\ ~Performed("load_wallet")
         /\ ~Performed("list_descriptors")

\* C10: the calls made by dogecoin_rpc_client_for_wallet_command are a prefix of
\* cookie_file, Client::new, get_blockchain_info, version, list_wallets,
\* load_wallet, list_descriptors (load_wallet left out when the wallet is in the
\* list of loaded wallets, and only then); none is made twice; a call that fails is
\* the last one and its error is the result; with create none of list_wallets,
\* load_wallet and list_descriptors is made; and once the function has returned no
\* further call is made.
C10_StepOrder ==
  /\ []C10_Order
  /\ [][pc = "returned" => steps' = steps]_vars
  /\ [][steps' # steps => (Len(steps') = Len(steps) + 1 /\ SubSeq(steps', 1, Len(steps)) = steps)]_vars

\* all seven calls were made, load_wallet among them, and the client was returned
C10_Witness ==
  /\ pc = "returned" /\ args.command = "wallet"
  /\ steps = StepOrder
  /\ Res.ok

====
